---- MODULE Spec2Model ----
(***************************************************************************)
(* Model of the bounded-concurrency task processor of                      *)
(* "Node.js Profesional/Event Loop y Programación Asíncrona - Día 1"       *)
(* (app.js, taskStorage.js).                                               *)
(*                                                                         *)
(* Node runs the code on one thread: a handler runs without interruption   *)
(* from its entry (or from the resumption of an await) to its next await.  *)
(* Every action below is one such run-to-completion step.                  *)
(*                                                                         *)
(*   SpecCM  ConcurrencyManager driven by execute() calls and by the       *)
(*           completion of the operations it started.                      *)
(*   FairSpecCM  SpecCM in which every started operation settles and every *)
(*           promise reaction runs.                                        *)
(*   SpecCB  CircuitBreaker driven by execute() calls, by the completion   *)
(*           of the wrapped operations and by the passing of time.         *)
(*   SpecSys AsyncProcessingSystem: construction with recovery, calls of   *)
(*           processTask, completion of the task bodies, crash and         *)
(*           restart, with a task store whose writes succeed.              *)
(*   SpecSysRead  SpecSys with the readers getMetrics() and                *)
(*           getSystemMetrics().                                           *)
(*   SpecSysIO  SpecSys started on any content of the store file, with     *)
(*           writes of the store that may fail.                            *)
(*   SpecSysEv  SpecSys with event listeners that may throw.               *)
(*   SpecSysData  SpecSys with task data that JSON does not hold as it is. *)
(***************************************************************************)
EXTENDS Integers, Sequences, FiniteSets, TLC

(***************************************************************************)
(* Bounds of the model.                                                    *)
(***************************************************************************)
\* number of execute() calls made on the ConcurrencyManager
MaxReq == 4
\* priorities are drawn from 0..MaxPri
MaxPri == 1
\* maxConcurrent is drawn from 1..MaxConc
MaxConc == 2
\* queueLimit is drawn from 0..MaxQueue
MaxQueue == 3

\* number of execute() calls made on the CircuitBreaker
MaxCalls == 4
\* the clock (Date.now()) runs from 0 to MaxTime
MaxTime == 4
\* failureThreshold is drawn from 1..MaxThreshold
MaxThreshold == 2
\* recoveryTime is drawn from 1..MaxRecovery
MaxRecovery == 2

\* number of processTask() calls made on the AsyncProcessingSystem, the
\* replays of recoverTasks() included
MaxTasks == 6
\* number of records in the task store before the first start
MaxStored == 4
\* number of times Math.random() gives a call of processTask() the value
\* it gave to the call before it
MaxRepeats == 1
\* number of crashes followed by a restart
MaxRestarts == 1
\* number of processTask() calls a caller keeps unfinished at a time
MaxOutstanding == 3

\* the defaults of the options   (app.js 53, 97, 98)
DefaultMaxConcurrent == 10
DefaultQueueLimit == 1000
DefaultFailureThreshold == 5
DefaultRecoveryTime == 5000

ReqIds == 1..MaxReq
Priorities == 0..MaxPri
CallIds == 1..MaxCalls
TaskNums == 1..MaxTasks

VARIABLES
    \* ---- ConcurrencyManager (app.js 6-49) ----
    maxConcurrent,  \* this.maxConcurrent
    queueLimit,     \* this.queueLimit
    activeCount,    \* this.activeCount
    queue,          \* this.queue: sequence of {fn, priority, resolve, reject}
    inFlight,       \* frames of _run suspended at "await fn()":
                    \* {fn, resolve, reject}
    settled,        \* settled promises of _run whose reaction has not run yet
    result,         \* per caller: the outcomes the promise returned by
                    \* execute() was given, in order
    \* ---- observation of the ConcurrencyManager (not program state) ----
    submitted,      \* number of execute() calls made so far
    invoked,        \* per operation: how many times fn() was called
    path            \* per call: the branch of execute() it took

cmVars == <<maxConcurrent, queueLimit, activeCount, queue, inFlight, settled,
            result, submitted, invoked, path>>

VARIABLES
    \* ---- CircuitBreaker (app.js 52-91) ----
    failureThreshold,   \* this.failureThreshold
    recoveryTime,       \* this.recoveryTime
    failures,           \* this.failures
    state,              \* this.state
    nextAttempt,        \* this.nextAttempt
    now,                \* Date.now()
    cbPc,               \* per call of execute(): "idle", "running" (suspended
                        \* at "await fn()") or "done"
    cbOut,              \* per call: what execute() gave its caller
    \* ---- observation of the CircuitBreaker (not program state) ----
    cbCalled,           \* number of execute() calls made so far
    opCalls,            \* per call: how many times the wrapped fn() was called
    enteredIn,          \* per call: this.state when fn() was called
    probe,              \* per call: it made the OPEN -> HALF_OPEN transition
    streak,             \* failed operations since the last success
    lastFailTime        \* Date.now() at the last failed operation

cbVars == <<failureThreshold, recoveryTime, failures, state, nextAttempt, now,
            cbPc, cbOut, cbCalled, opCalls, enteredIn, probe, streak,
            lastFailTime>>

VARIABLES
    \* ---- AsyncProcessingSystem (app.js 93-224) and its store ----
    options,        \* the options object given to the constructor; an option
                    \* is {} when absent and {v} when given as v
    pendingTasks,   \* this.pendingTasks: sequence of {taskId, taskData,
                    \* priority}
    disk,           \* the file pendingTasks.json: [kind, recs]
    totalProcessed, \* this.metrics.totalProcessed
    totalErrors,    \* this.metrics.totalErrors
    startTime,      \* this.metrics.startTime
    thrown,         \* whether the constructor threw
    ctor,           \* position of the constructor: 0 when it has returned,
                    \* i when recoverTasks() is about to replay record i
    cbRejected,     \* task bodies whose circuitBreaker.execute() threw
                    \* "Circuit breaker is OPEN": their frames of executeTask
                    \* and _run have not resumed yet
    calls,          \* per call of processTask(): its taskId, and what is
                    \* observed of it (not program state but for taskId)
    nCalls,         \* number of processTask() calls made so far
    \* ---- environment and observation ----
    ioFaults,       \* whether writes of the store file may fail
    listeners,      \* the events for which a listener that throws is
                    \* registered with on()
    payloads,       \* the kinds of taskData the callers submit
    repeats,        \* number of times Math.random() repeated a value
    loaded,         \* number of records loadTasks() returned at the last start
    replayed,       \* number of processTask(..., true) calls of the last start
    restarts,       \* number of crashes so far
    report          \* the value getMetrics() or getSystemMetrics() returned
                    \* in the last step, NoReport after any other step

sysVars == <<options, pendingTasks, disk, totalProcessed, totalErrors,
             startTime, thrown, ctor, cbRejected, calls, nCalls, ioFaults,
             listeners, payloads, repeats, loaded, replayed, restarts,
             report>>

vars == <<cmVars, cbVars, sysVars>>

(***************************************************************************)
(* Array.prototype.sort with the comparator (a, b) => b.priority -         *)
(* a.priority (app.js 21).  The sort is stable (ECMAScript 2019, 22.1.3.27)*)
(* so entries that compare equal keep their order.  It is computed here as *)
(* an insertion sort over the whole array.                                 *)
(***************************************************************************)
Compare(a, b) == b.priority - a.priority

RECURSIVE InsertSorted(_, _)
InsertSorted(s, e) ==
    IF s = <<>> THEN <<e>>
    ELSE IF Compare(s[Len(s)], e) <= 0
         THEN Append(s, e)
         ELSE Append(InsertSorted(SubSeq(s, 1, Len(s) - 1), e), s[Len(s)])

RECURSIVE SortByPriority(_)
SortByPriority(s) ==
    IF s = <<>> THEN <<>>
    ELSE InsertSorted(SortByPriority(SubSeq(s, 1, Len(s) - 1)), s[Len(s)])

\* Mutant of Enqueue: the request is pushed and the queue is not sorted.
EnqueueUnsorted(q, entry) == Append(q, entry)

\* Mutant of Enqueue: an unstable sort that puts the new request before the
\* waiting requests of the same priority.
EnqueueBeforeEquals(q, entry) ==
    LET higher == SelectSeq(q, LAMBDA x : x.priority > entry.priority)
        others == SelectSeq(q, LAMBDA x : x.priority <= entry.priority)
    IN  higher \o <<entry>> \o others

\* this.queue.push(entry); this.queue.sort(...)   (app.js 20-21)
Enqueue(q, entry) == SortByPriority(Append(q, entry))

\* Mutant of QueueIsFull: the comparison is off by one.
QueueIsFullOffByOne(q, limit) == Len(q) > limit

\* Mutant of QueueIsFull: the limit is never applied.
QueueIsNeverFull(q, limit) == FALSE

\* this.queue.length >= this.queueLimit   (app.js 16)
QueueIsFull(q, limit) == Len(q) >= limit

\* Mutant of Acquire: the slot is not taken.
AcquireNothing(n) == n

\* this.activeCount++   (app.js 28)
Acquire(n) == n + 1

\* Mutant of Release: the slot is not given back.
ReleaseForgotten(n) == n

\* this.activeCount--   (app.js 33)
Release(n) == n - 1

\* this.queue.shift()   (app.js 35): the entry removed and the rest
Shift(q) == [next |-> Head(q), rest |-> Tail(q)]

\* new Error("Task queue limit reached")   (app.js 17): the error of no
\* operation
QueueFullError == <<"QueueFull", 0>>

\* The outcome of operation f: its own value or its own error.
OpOutcome(f, ok) == IF ok THEN <<"value", f>> ELSE <<"error", f>>

\* The two ends of the promise execute() returns to caller id: the promise
\* of the async function on the direct path (app.js 24), the resolve and
\* reject functions of new Promise(...) on the queued path (app.js 19).
ResolveOf(id) == <<"fulfilled", id>>
RejectOf(id) == <<"rejected", id>>

\* The frame of _run(fn) that serves caller id
Frame(f, id) == [fn |-> f, resolve |-> ResolveOf(id), reject |-> RejectOf(id)]

\* Mutant of Settlement: the failure takes the resolve end too
\* (.then(next.resolve, next.resolve)).
SettlementResolveOnly(fr, ok) ==
    [chan |-> fr.resolve, outcome |-> OpOutcome(fr.fn, ok)]

\* The promise of _run(fr.fn) settles: fulfilled with the value of fn()
\* (app.js 30-31) or rejected with its error.  Its reaction hands the outcome
\* to the promise execute() returned: that promise itself on the direct path
\* (app.js 24), next.resolve / next.reject on the queued path
\* (.then(next.resolve).catch(next.reject), app.js 36).
Settlement(fr, ok) ==
    [chan |-> IF ok THEN fr.resolve ELSE fr.reject,
     outcome |-> OpOutcome(fr.fn, ok)]

(***************************************************************************)
(* ConcurrencyManager                                                      *)
(***************************************************************************)
\* A ConcurrencyManager that is constructed and not used
IdleCM ==
    /\ maxConcurrent = 1
    /\ queueLimit = 0
    /\ activeCount = 0
    /\ queue = <<>>
    /\ inFlight = {}
    /\ settled = {}
    /\ result = [r \in ReqIds |-> <<>>]
    /\ submitted = 0
    /\ invoked = [r \in ReqIds |-> 0]
    /\ path = [r \in ReqIds |-> "none"]

\* A CircuitBreaker that is constructed and not used
IdleCB ==
    /\ failureThreshold = 1
    /\ recoveryTime = 1
    /\ failures = 0
    /\ state = "CLOSED"
    /\ nextAttempt = 0
    /\ now = 0
    /\ cbPc = [c \in CallIds |-> "idle"]
    /\ cbOut = [c \in CallIds |-> "none"]
    /\ cbCalled = 0
    /\ opCalls = [c \in CallIds |-> 0]
    /\ enteredIn = [c \in CallIds |-> "none"]
    /\ probe = [c \in CallIds |-> FALSE]
    /\ streak = 0
    /\ lastFailTime = 0

\* No call of processTask() has been made.
NoCall == [taskId |-> <<0, 0>>, record |-> <<0, 0>>, recovered |-> FALSE,
           stored |-> FALSE, runs |-> 0, metered |-> <<>>, events |-> <<>>,
           outcome |-> <<"no call", <<"none", 0>>>>]

\* a / b in JavaScript: NaN for 0 / 0, Infinity for a / 0 with a > 0, the
\* ratio otherwise
Divide(a, b) ==
    IF b = 0
    THEN IF a = 0 THEN <<"NaN", 0, 0>> ELSE <<"Infinity", 0, 0>>
    ELSE <<"ratio", a, b>>

\* No value has been returned by getMetrics() or getSystemMetrics().
NoReport ==
    [kind |-> "none", uptime |-> 0, throughput |-> <<"none", 0, 0>>,
     errorRate |-> <<"none", 0, 0>>,
     concurrency |-> [activeCount |-> 0, queueLength |-> 0,
                      maxConcurrent |-> 0, queueLimit |-> 0],
     circuitBreakerState |-> "none"]

\* No AsyncProcessingSystem is constructed.
IdleSys ==
    /\ options = [maxConcurrent |-> {}, queueLimit |-> {},
                  failureThreshold |-> {}, recoveryTime |-> {}]
    /\ pendingTasks = <<>>
    /\ disk = [kind |-> "absent", recs |-> <<>>]
    /\ totalProcessed = 0
    /\ totalErrors = 0
    /\ startTime = 0
    /\ thrown = FALSE
    /\ report = NoReport
    /\ ctor = 0
    /\ cbRejected = {}
    /\ calls = [n \in TaskNums |-> NoCall]
    /\ nCalls = 0
    /\ ioFaults = FALSE
    /\ listeners = {}
    /\ payloads = {}
    /\ repeats = 0
    /\ loaded = 0
    /\ replayed = 0
    /\ restarts = 0

InitCM ==
    /\ IdleCB
    /\ IdleSys
    /\ maxConcurrent \in 1..MaxConc
    /\ queueLimit \in 0..MaxQueue
    /\ activeCount = 0
    /\ queue = <<>>
    /\ inFlight = {}
    /\ settled = {}
    /\ result = [r \in ReqIds |-> <<>>]
    /\ submitted = 0
    /\ invoked = [r \in ReqIds |-> 0]
    /\ path = [r \in ReqIds |-> "none"]

\* execute(fn, priority) when activeCount >= maxConcurrent and the queue is
\* full: throw new Error("Task queue limit reached")   (app.js 15-18)
ExecuteReject(id, p) ==
    /\ activeCount >= maxConcurrent
    /\ QueueIsFull(queue, queueLimit)
    /\ result' = [result EXCEPT ![id] = Append(@, <<"rejected", QueueFullError>>)]
    /\ submitted' = id
    /\ path' = [path EXCEPT ![id] = "rejected"]
    /\ UNCHANGED <<maxConcurrent, queueLimit, activeCount, queue, inFlight,
                   settled, invoked>>

\* execute(fn, priority) when activeCount >= maxConcurrent and the queue has
\* room: push the request and sort the queue   (app.js 19-22)
ExecuteEnqueue(id, p) ==
    /\ activeCount >= maxConcurrent
    /\ ~QueueIsFull(queue, queueLimit)
    /\ queue' = Enqueue(queue, [fn |-> id, priority |-> p,
                                resolve |-> ResolveOf(id),
                                reject |-> RejectOf(id)])
    /\ submitted' = id
    /\ path' = [path EXCEPT ![id] = "queued"]
    /\ UNCHANGED <<maxConcurrent, queueLimit, activeCount, inFlight, settled,
                   result, invoked>>

\* execute(fn, priority) when activeCount < maxConcurrent: return
\* this._run(fn), which runs up to "await fn()"   (app.js 24, 27-30)
ExecuteRun(id, p) ==
    /\ activeCount < maxConcurrent
    /\ activeCount' = Acquire(activeCount)
    /\ inFlight' = inFlight \cup {Frame(id, id)}
    /\ invoked' = [invoked EXCEPT ![id] = @ + 1]
    /\ submitted' = id
    /\ path' = [path EXCEPT ![id] = "direct"]
    /\ UNCHANGED <<maxConcurrent, queueLimit, queue, settled, result>>

\* A call of execute(): the calls are numbered in the order they are made.
Execute ==
    /\ submitted < MaxReq
    /\ UNCHANGED <<cbVars, sysVars>>
    /\ \E p \in Priorities :
         LET id == submitted + 1 IN
           \/ ExecuteReject(id, p)
           \/ ExecuteEnqueue(id, p)
           \/ ExecuteRun(id, p)

\* Mutant of RunFinally: the slot is released and the queue is left alone.
RunFinallyLeavesQueue(fr, ok) ==
    /\ fr \in inFlight
    /\ settled' = settled \cup {Settlement(fr, ok)}
    /\ activeCount' = Release(activeCount)
    /\ inFlight' = inFlight \ {fr}
    /\ UNCHANGED <<queue, invoked>>
    /\ UNCHANGED <<maxConcurrent, queueLimit, result, submitted, path>>

\* Mutant of RunFinally: the head of the queue is removed and never started.
RunFinallyDropsHead(fr, ok) ==
    /\ fr \in inFlight
    /\ settled' = settled \cup {Settlement(fr, ok)}
    /\ activeCount' = Release(activeCount)
    /\ inFlight' = inFlight \ {fr}
    /\ queue' = IF Len(queue) > 0 THEN Shift(queue).rest ELSE queue
    /\ UNCHANGED invoked
    /\ UNCHANGED <<maxConcurrent, queueLimit, result, submitted, path>>

\* The operation of frame fr settles and _run resumes: the finally block
\* releases the slot and, if a request is waiting, starts the head of the
\* queue in the same step   (app.js 30-38)
RunFinally(fr, ok) ==
    /\ fr \in inFlight
    /\ settled' = settled \cup {Settlement(fr, ok)}
    /\ IF Len(queue) > 0
       THEN LET sh == Shift(queue) IN
            /\ queue' = sh.rest
            /\ activeCount' = Acquire(Release(activeCount))
            /\ inFlight' = (inFlight \ {fr})
                             \cup {[fn |-> sh.next.fn,
                                    resolve |-> sh.next.resolve,
                                    reject |-> sh.next.reject]}
            /\ invoked' = [invoked EXCEPT ![sh.next.fn] = @ + 1]
       ELSE /\ activeCount' = Release(activeCount)
            /\ inFlight' = inFlight \ {fr}
            /\ UNCHANGED <<queue, invoked>>
    /\ UNCHANGED <<maxConcurrent, queueLimit, result, submitted, path>>

Finish ==
    /\ \E fr \in inFlight, ok \in BOOLEAN : RunFinally(fr, ok)
    /\ UNCHANGED <<cbVars, sysVars>>

\* The reaction to a settled promise of _run: the promise returned by
\* execute() takes its outcome, directly (app.js 24) or through
\* .then(next.resolve).catch(next.reject) (app.js 36)
Deliver ==
    /\ \E s \in settled :
         /\ settled' = settled \ {s}
         /\ result' = [result EXCEPT ![s.chan[2]] =
                                       Append(@, <<s.chan[1], s.outcome>>)]
         /\ UNCHANGED <<maxConcurrent, queueLimit, activeCount, queue,
                        inFlight, submitted, invoked, path>>
    /\ UNCHANGED <<cbVars, sysVars>>

NextCM == Execute \/ Finish \/ Deliver

SpecCM == InitCM /\ [][NextCM]_vars

(***************************************************************************)
(* CircuitBreaker                                                          *)
(***************************************************************************)
\* Mutant of MayAttempt: the probe is allowed at nextAttempt itself.
MayAttemptAtDeadline(t, na) == t >= na

\* Date.now() > this.nextAttempt   (app.js 63)
MayAttempt(t, na) == t > na

\* Mutant of ThresholdReached: the breaker opens one failure late.
ThresholdExceeded(f, th) == f > th

\* this.failures >= this.failureThreshold   (app.js 86)
ThresholdReached(f, th) == f >= th

\* Mutant of Reset: the state is closed and the count is kept.
ResetKeepsCount(b) == [b EXCEPT !.state = "CLOSED"]

\* _reset()   (app.js 79-82): the breaker fields after it
Reset(b) == [b EXCEPT !.failures = 0, !.state = "CLOSED"]

\* Mutant of Fail: every failure opens the breaker.
FailOpensAlways(b, t) ==
    [b EXCEPT !.failures = @ + 1, !.state = "OPEN",
              !.nextAttempt = t + b.recoveryTime]

\* _fail() called at time t   (app.js 84-90): the breaker fields after it
Fail(b, t) ==
    LET f == b.failures + 1 IN
    IF ThresholdReached(f, b.failureThreshold)
    THEN [b EXCEPT !.failures = f, !.state = "OPEN",
                   !.nextAttempt = t + b.recoveryTime]
    ELSE [b EXCEPT !.failures = f]

\* the fields of the breaker object
Breaker == [failureThreshold |-> failureThreshold,
            recoveryTime |-> recoveryTime,
            failures |-> failures,
            state |-> state,
            nextAttempt |-> nextAttempt]

\* the breaker object becomes b
SetBreaker(b) ==
    /\ failures' = b.failures
    /\ state' = b.state
    /\ nextAttempt' = b.nextAttempt
    /\ UNCHANGED <<failureThreshold, recoveryTime>>

\* new CircuitBreaker(failureThreshold, recoveryTime)   (app.js 53-59)
InitCB ==
    /\ IdleCM
    /\ IdleSys
    /\ failureThreshold \in 1..MaxThreshold
    /\ recoveryTime \in 1..MaxRecovery
    /\ failures = 0
    /\ state = "CLOSED"
    /\ now = 0
    /\ nextAttempt = now
    /\ cbPc = [c \in CallIds |-> "idle"]
    /\ cbOut = [c \in CallIds |-> "none"]
    /\ cbCalled = 0
    /\ opCalls = [c \in CallIds |-> 0]
    /\ enteredIn = [c \in CallIds |-> "none"]
    /\ probe = [c \in CallIds |-> FALSE]
    /\ streak = 0
    /\ lastFailTime = 0

\* execute(fn) while OPEN and the recovery time has not passed:
\* throw new Error("Circuit breaker is OPEN")   (app.js 62-67)
CBExecuteReject(c) ==
    /\ state = "OPEN"
    /\ ~MayAttempt(now, nextAttempt)
    /\ cbPc' = [cbPc EXCEPT ![c] = "done"]
    /\ cbOut' = [cbOut EXCEPT ![c] = "CircuitOpen"]
    /\ cbCalled' = c
    /\ UNCHANGED <<failureThreshold, recoveryTime, failures, state,
                   nextAttempt, now, opCalls, enteredIn, probe, streak,
                   lastFailTime>>

\* execute(fn) while OPEN and the recovery time has passed: the state becomes
\* HALF_OPEN and fn() is called   (app.js 62-64, 69-70)
CBExecuteProbe(c) ==
    /\ state = "OPEN"
    /\ MayAttempt(now, nextAttempt)
    /\ state' = "HALF_OPEN"
    /\ cbPc' = [cbPc EXCEPT ![c] = "running"]
    /\ opCalls' = [opCalls EXCEPT ![c] = @ + 1]
    /\ enteredIn' = [enteredIn EXCEPT ![c] = "HALF_OPEN"]
    /\ probe' = [probe EXCEPT ![c] = TRUE]
    /\ cbCalled' = c
    /\ UNCHANGED <<failureThreshold, recoveryTime, failures, nextAttempt, now,
                   cbOut, streak, lastFailTime>>

\* execute(fn) while not OPEN (CLOSED or HALF_OPEN): fn() is called
\* (app.js 62, 69-70)
CBExecutePass(c) ==
    /\ state # "OPEN"
    /\ cbPc' = [cbPc EXCEPT ![c] = "running"]
    /\ opCalls' = [opCalls EXCEPT ![c] = @ + 1]
    /\ enteredIn' = [enteredIn EXCEPT ![c] = state]
    /\ cbCalled' = c
    /\ UNCHANGED <<failureThreshold, recoveryTime, failures, state,
                   nextAttempt, now, cbOut, probe, streak, lastFailTime>>

\* A call of CircuitBreaker.execute(): the calls are numbered in the order
\* they are made.
CBExecute ==
    /\ cbCalled < MaxCalls
    /\ LET c == cbCalled + 1 IN
         \/ CBExecuteReject(c)
         \/ CBExecuteProbe(c)
         \/ CBExecutePass(c)
    /\ UNCHANGED <<cmVars, sysVars>>

\* The wrapped operation of call c succeeds: _reset() and the result is
\* returned   (app.js 70-72)
CBSucceed(c) ==
    /\ cbPc[c] = "running"
    /\ SetBreaker(Reset(Breaker))
    /\ cbPc' = [cbPc EXCEPT ![c] = "done"]
    /\ cbOut' = [cbOut EXCEPT ![c] = "value"]
    /\ streak' = 0
    /\ UNCHANGED <<now, cbCalled, opCalls, enteredIn, probe, lastFailTime>>

\* The wrapped operation of call c fails: _fail() and the error is thrown
\* again   (app.js 73-76)
CBFail(c) ==
    /\ cbPc[c] = "running"
    /\ SetBreaker(Fail(Breaker, now))
    /\ cbPc' = [cbPc EXCEPT ![c] = "done"]
    /\ cbOut' = [cbOut EXCEPT ![c] = "error"]
    /\ streak' = streak + 1
    /\ lastFailTime' = now
    /\ UNCHANGED <<now, cbCalled, opCalls, enteredIn, probe>>

CBComplete ==
    /\ \E c \in CallIds : CBSucceed(c) \/ CBFail(c)
    /\ UNCHANGED <<cmVars, sysVars>>

\* The clock advances.
Tick ==
    /\ now < MaxTime
    /\ now' = now + 1
    /\ UNCHANGED <<failureThreshold, recoveryTime, failures, state,
                   nextAttempt, cbPc, cbOut, cbCalled, opCalls, enteredIn,
                   probe, streak, lastFailTime>>
    /\ UNCHANGED <<cmVars, sysVars>>

NextCB == CBExecute \/ CBComplete \/ Tick

SpecCB == InitCB /\ [][NextCB]_vars

\* Every started operation eventually settles (C6 is about its "eventual
\* success or failure") and the reaction to a settled promise is run by the
\* microtask queue.
FairSpecCM == SpecCM /\ WF_vars(Finish) /\ WF_vars(Deliver)

(***************************************************************************)
(* Task store   (taskStorage.js)                                           *)
(***************************************************************************)
\* The kinds of taskData: <<"new", n>> and <<"old", n>> are data that JSON
\* holds as they are (objects of numbers and strings, as { id, data } of
\* app.js 250), <<"date", n>> is an object that holds a Date, and
\* <<"isoString", n>> the same object with the ISO string of that date.
PayloadKinds == {"new", "date"}

\* What JSON.stringify writes for the value v   (taskStorage.js 20): a Date
\* is written as the string its toJSON() returns.
ToJSON(v) == IF v[1] = "date" THEN <<"isoString", v[2]>> ELSE v

\* JSON.stringify(tasks, null, 2)   (taskStorage.js 20): the text of an array
\* of objects, each written as the values of its keys in order
Stringify(tasks) ==
    [i \in DOMAIN tasks |->
        <<tasks[i].taskId, ToJSON(tasks[i].taskData), tasks[i].priority>>]

\* JSON.parse(data)   (taskStorage.js 11) of a text Stringify wrote
Parse(text) ==
    [i \in DOMAIN text |->
        [taskId |-> text[i][1], taskData |-> text[i][2],
         priority |-> text[i][3]]]

\* loadTasks()   (taskStorage.js 7-16): [] when the file does not exist
\* ("absent") and when JSON.parse throws ("malformed"); the parsed value
\* otherwise, which for a file that holds a JSON object ("object") is an
\* object without elements
LoadTasks(d) == IF d.kind = "array" THEN Parse(d.recs) ELSE <<>>

\* whether for...of can iterate the value loadTasks() returns
\* (app.js 146): an array can, a plain object cannot (TypeError)
Iterable(d) == d.kind # "object"

\* Mutant of SaveTasks: nothing is written.
SaveTasksSkipped(d, tasks, wok) == d

\* saveTasks(tasks)   (taskStorage.js 18-24): the file after the call; a write
\* that fails (wok = FALSE) is logged and leaves the file as it was
SaveTasks(d, tasks, wok) ==
    IF wok THEN [kind |-> "array", recs |-> Stringify(tasks)] ELSE d

\* outcomes of fs.writeFileSync
WriteOutcomes == IF ioFaults THEN BOOLEAN ELSE {TRUE}

(***************************************************************************)
(* AsyncProcessingSystem                                                   *)
(***************************************************************************)
\* Mutant of OrDefault: only an absent option takes the default (??).
OrDefaultNullish(o, d) == IF o = {} THEN d ELSE CHOOSE v \in o : TRUE

\* options.x || d   (app.js 97-98): d when x is absent and when x is falsy
OrDefault(o, d) ==
    IF o = {} \/ o = {0} THEN d ELSE CHOOSE v \in o : TRUE

\* the option objects the system is constructed with
OptionChoices ==
    { [maxConcurrent |-> {}, queueLimit |-> {},
       failureThreshold |-> {}, recoveryTime |-> {}],
      [maxConcurrent |-> {1}, queueLimit |-> {1},
       failureThreshold |-> {1}, recoveryTime |-> {1}],
      [maxConcurrent |-> {2}, queueLimit |-> {0},
       failureThreshold |-> {2}, recoveryTime |-> {2}] }

\* "Circuit breaker is OPEN"   (app.js 67)
CircuitOpenError == <<"CircuitOpen", 0>>

\* The error a listener throws: emit() calls the listeners of the event in
\* the caller's stack and lets their exception through (app.js 124, 135,
\* 138).
ListenerError == <<"Listener", 0>>

\* the events of processTask()   (app.js 124, 135, 138)
EventNames == {"taskQueued", "taskCompleted", "taskFailed"}

\* error.message   (app.js 138, 149)
ErrorMessage(o) ==
    CASE o[1] = "QueueFull" -> "Task queue limit reached"
      [] o[1] = "CircuitOpen" -> "Circuit breaker is OPEN"
      [] o[1] = "Listener" -> "Listener error"
      [] OTHER -> "External service error"

\* `task_${Date.now()}_${Math.random().toString(36).substr(2, 9)}`
\* (app.js 113-115)
TaskId(t, rnd) == <<t, rnd>>

\* the objects of the ConcurrencyManager and of the CircuitBreaker, with the
\* task bodies started in the step
Managers ==
    [activeCount |-> activeCount, queue |-> queue, inFlight |-> inFlight,
     settled |-> settled, failures |-> failures, state |-> state,
     nextAttempt |-> nextAttempt, cbRejected |-> cbRejected, started |-> {}]

\* Mutant of StartRun: the task body starts whatever the breaker says.
StartRunBodyAnyway(a, fr) ==
    LET a1 == [a EXCEPT !.activeCount = Acquire(@),
                        !.inFlight = @ \cup {fr},
                        !.started = @ \cup {fr.fn}] IN
    IF a1.state = "OPEN"
    THEN IF MayAttempt(now, a1.nextAttempt)
         THEN [a1 EXCEPT !.state = "HALF_OPEN"]
         ELSE [a1 EXCEPT !.cbRejected = @ \cup {fr.fn}]
    ELSE a1

\* _run(fr.fn) up to "await fn()"   (app.js 27-30), where fn() is
\* executeTask() (app.js 155-160) up to its await of circuitBreaker.execute()
\* (app.js 61-70): an open breaker throws before the body starts unless the
\* recovery time has passed, and then it becomes HALF_OPEN
StartRun(a, fr) ==
    LET a1 == [a EXCEPT !.activeCount = Acquire(@),
                        !.inFlight = @ \cup {fr}] IN
    IF a1.state = "OPEN"
    THEN IF MayAttempt(now, a1.nextAttempt)
         THEN [a1 EXCEPT !.state = "HALF_OPEN", !.started = @ \cup {fr.fn}]
         ELSE [a1 EXCEPT !.cbRejected = @ \cup {fr.fn}]
    ELSE [a1 EXCEPT !.started = @ \cup {fr.fn}]

\* concurrencyManager.execute(fn, priority) for call n   (app.js 14-25)
Admit(a, n, p) ==
    IF a.activeCount >= maxConcurrent
    THEN IF QueueIsFull(a.queue, queueLimit)
         THEN [a EXCEPT !.settled =
                  @ \cup {[chan |-> RejectOf(n), outcome |-> QueueFullError]}]
         ELSE [a EXCEPT !.queue =
                  Enqueue(@, [fn |-> n, priority |-> p,
                              resolve |-> ResolveOf(n),
                              reject |-> RejectOf(n)])]
    ELSE StartRun(a, Frame(n, n))

\* the finally block of _run   (app.js 32-38)
Finally(a, fr) ==
    LET a1 == [a EXCEPT !.activeCount = Release(@),
                        !.inFlight = @ \ {fr}] IN
    IF Len(a1.queue) > 0
    THEN LET sh == Shift(a1.queue) IN
         StartRun([a1 EXCEPT !.queue = sh.rest],
                  [fn |-> sh.next.fn, resolve |-> sh.next.resolve,
                   reject |-> sh.next.reject])
    ELSE a1

\* the objects of the managers become a
SetManagers(a) ==
    /\ activeCount' = a.activeCount
    /\ queue' = a.queue
    /\ inFlight' = a.inFlight
    /\ settled' = a.settled
    /\ failures' = a.failures
    /\ state' = a.state
    /\ nextAttempt' = a.nextAttempt
    /\ cbRejected' = a.cbRejected
    /\ UNCHANGED <<maxConcurrent, queueLimit, failureThreshold, recoveryTime>>

\* the task bodies in `started` have started once more
Started(cs, started) ==
    [n \in TaskNums |->
        IF n \in started THEN [cs[n] EXCEPT !.runs = @ + 1] ELSE cs[n]]

\* updateMetrics(latency, success) has been called for the task of call n
Metered(cs, n, success) == [cs EXCEPT ![n].metered = Append(@, success)]

\* what the models of the two classes alone observe stays as it is
SysFrame ==
    /\ UNCHANGED <<result, submitted, invoked, path, cbPc, cbOut, cbCalled,
                   opCalls, enteredIn, probe, streak, lastFailTime>>
    /\ report' = NoReport

\* new AsyncProcessingSystem(options)   (app.js 94-109) at time t with the
\* store file d: the fields of the new objects, up to the call of
\* recoverTasks()
NewSystem(o, d, t) ==
    [maxConcurrent |-> OrDefault(o.maxConcurrent, DefaultMaxConcurrent),
     queueLimit |-> OrDefault(o.queueLimit, DefaultQueueLimit),
     failureThreshold |-> DefaultFailureThreshold,
     recoveryTime |-> DefaultRecoveryTime,
     nextAttempt |-> t,
     startTime |-> t,
     pendingTasks |-> LoadTasks(d),
     thrown |-> ~Iterable(d),
     ctor |-> IF Len(LoadTasks(d)) > 0 THEN 1 ELSE 0]

\* the store files a first start can find: no file, or the records that
\* earlier runs left
StoredFiles ==
    {[kind |-> "absent", recs |-> <<>>]} \cup
    {[kind |-> "array",
      recs |-> [i \in 1..k |->
                  <<TaskId(-1, i), <<"old", i>>, i % (MaxPri + 1)>>]] :
        k \in 0..MaxStored}

\* the store files of any content: the ones above, a file that is not JSON,
\* and a file that holds a JSON object
AnyFiles ==
    StoredFiles \cup {[kind |-> "malformed", recs |-> <<>>],
                      [kind |-> "object", recs |-> <<>>]}

\* The first start of the program, with one of the store files in files,
\* with writes of the store file that may fail or not, with the listeners
\* of one of the sets in throwing registered after construction, and with
\* callers that submit taskData of the kinds in kinds.
SysStart(files, faults, throwing, kinds) ==
    /\ options \in OptionChoices
    /\ disk \in files
    /\ now = 0
    /\ LET s == NewSystem(options, disk, now) IN
         /\ maxConcurrent = s.maxConcurrent
         /\ queueLimit = s.queueLimit
         /\ failureThreshold = s.failureThreshold
         /\ recoveryTime = s.recoveryTime
         /\ nextAttempt = s.nextAttempt
         /\ startTime = s.startTime
         /\ pendingTasks = s.pendingTasks
         /\ thrown = s.thrown
         /\ ctor = s.ctor
         /\ loaded = Len(s.pendingTasks)
    /\ report = NoReport
    /\ activeCount = 0
    /\ queue = <<>>
    /\ inFlight = {}
    /\ settled = {}
    /\ failures = 0
    /\ state = "CLOSED"
    /\ totalProcessed = 0
    /\ totalErrors = 0
    /\ cbRejected = {}
    /\ calls = [n \in TaskNums |-> NoCall]
    /\ nCalls = 0
    /\ ioFaults = faults
    /\ listeners \in throwing
    /\ payloads = kinds
    /\ repeats = 0
    /\ replayed = 0
    /\ restarts = 0
    /\ result = [r \in ReqIds |-> <<>>]
    /\ submitted = 0
    /\ invoked = [r \in ReqIds |-> 0]
    /\ path = [r \in ReqIds |-> "none"]
    /\ cbPc = [c \in CallIds |-> "idle"]
    /\ cbOut = [c \in CallIds |-> "none"]
    /\ cbCalled = 0
    /\ opCalls = [c \in CallIds |-> 0]
    /\ enteredIn = [c \in CallIds |-> "none"]
    /\ probe = [c \in CallIds |-> FALSE]
    /\ streak = 0
    /\ lastFailTime = 0

\* The first start of the program with a store file that earlier runs left
\* and writes that succeed.
InitSys == SysStart(StoredFiles, FALSE, {{}}, {"new"})

\* whether the sequence of records recs holds one with task id id
HasRecord(recs, id) == \E i \in DOMAIN recs : recs[i].taskId = id

\* The values of Math.random() for the next call of processTask(): one that
\* no call had (the number of the call), or the one the call before it had.
RandomValues ==
    {nCalls + 1} \cup
    IF repeats < MaxRepeats /\ nCalls >= 1 /\ calls[nCalls].outcome[1] = "none"
    THEN {calls[nCalls].taskId[2]}
    ELSE {}

\* the priority of the tasks a caller submits: the default of processTask()
\* (app.js 112)
SubmitPriorities == {0}

\* Only the last call that finished is remembered among the finished ones.
Forget(cs) ==
    [n \in TaskNums |-> IF cs[n].outcome[1] = "none" THEN cs[n] ELSE NoCall]

\* processTask(taskData, priority, isRecovered) up to its await
\* (app.js 112-130); record is the id of the stored record a replay is made
\* for, rnd the value of Math.random(), wok the outcome of the write.
\* emit("taskQueued") is outside the try block: a listener that throws ends
\* the call before execute() is called.  The replays run inside the
\* constructor, before any listener can be registered.
ProcessTask(taskData, priority, isRecovered, record, rnd, wok) ==
    LET n == nCalls + 1
        taskId == TaskId(now, rnd)
        task == [taskId |-> taskId, taskData |-> taskData,
                 priority |-> priority]
        tasks == IF isRecovered THEN pendingTasks
                 ELSE Append(pendingTasks, task)
        file == IF isRecovered THEN disk ELSE SaveTasks(disk, tasks, wok)
        a == Admit(Managers, n, priority)
    IN
    /\ nCalls < MaxTasks
    /\ nCalls' = n
    /\ repeats' = IF rnd = n THEN repeats ELSE repeats + 1
    /\ pendingTasks' = tasks
    /\ disk' = file
    /\ IF ~isRecovered /\ "taskQueued" \in listeners
       THEN /\ SetManagers(Managers)
            /\ calls' = [Forget(calls) EXCEPT ![n] =
                  [taskId |-> taskId,
                   record |-> taskId,
                   recovered |-> FALSE,
                   stored |-> /\ HasRecord(tasks, taskId)
                              /\ HasRecord(LoadTasks(file), taskId),
                   runs |-> 0,
                   metered |-> <<>>,
                   events |-> << <<"taskQueued", taskId>> >>,
                   outcome |-> <<"rejected", ListenerError>>]]
       ELSE /\ SetManagers(a)
            /\ calls' = Started(
                  [calls EXCEPT ![n] =
                      [taskId |-> taskId,
                       record |-> IF isRecovered THEN record ELSE taskId,
                       recovered |-> isRecovered,
                       stored |-> /\ HasRecord(tasks, taskId)
                                  /\ HasRecord(LoadTasks(file), taskId),
                       runs |-> 0,
                       metered |-> <<>>,
                       events |-> << <<"taskQueued", taskId>> >>,
                       outcome |-> <<"none", <<"none", 0>>>>]],
                  a.started)
    /\ UNCHANGED <<options, totalProcessed, totalErrors, startTime, thrown,
                   ioFaults, listeners, payloads, loaded, restarts, now>>
    /\ SysFrame

\* the calls of processTask() that have not finished
Unfinished == {n \in 1..nCalls : calls[n].outcome[1] = "none"}

\* A caller submits a new task: processTask(taskData, priority)
Submit ==
    /\ ctor = 0
    /\ ~thrown
    /\ Cardinality(Unfinished) < MaxOutstanding
    /\ \E p \in SubmitPriorities, rnd \in RandomValues,
          wok \in WriteOutcomes, kind \in payloads :
         ProcessTask(<<kind, nCalls + 1>>, p, FALSE, <<0, 0>>, rnd, wok)
    /\ UNCHANGED <<ctor, replayed>>

\* Mutant of RecoverNext: a replay that execute() rejects ends the loop.
RecoverNextEscalates ==
    /\ ctor > 0
    /\ LET task == pendingTasks[ctor] IN
         \E rnd \in RandomValues :
            ProcessTask(task.taskData, task.priority, TRUE, task.taskId,
                        rnd, TRUE)
    /\ ctor' = IF ctor < Len(pendingTasks) /\ settled' = settled
               THEN ctor + 1 ELSE 0
    /\ replayed' = replayed + 1

\* One turn of the loop of recoverTasks()   (app.js 146-152)
RecoverNext ==
    /\ ctor > 0
    /\ LET task == pendingTasks[ctor] IN
         \E rnd \in RandomValues :
            ProcessTask(task.taskData, task.priority, TRUE, task.taskId,
                        rnd, TRUE)
    /\ ctor' = IF ctor < Len(pendingTasks) THEN ctor + 1 ELSE 0
    /\ replayed' = replayed + 1

\* updateMetrics(latency, success)   (app.js 188-193)
UpdateMetrics(success) ==
    /\ totalProcessed' = IF success THEN totalProcessed + 1
                         ELSE totalProcessed
    /\ totalErrors' = IF success THEN totalErrors ELSE totalErrors + 1

\* The timer of a started task body fires and the body returns or throws
\* (app.js 161-174); circuitBreaker.execute() resumes (app.js 72-77), then
\* executeTask() (app.js 177-184), then _run() (app.js 31-38).  A timer
\* fires only when no reaction is waiting to run.
BodySettles ==
    /\ ctor = 0
    /\ settled = {}
    /\ cbRejected = {}
    /\ \E fr \in inFlight, ok \in BOOLEAN :
         LET b == IF ok THEN Reset(Breaker) ELSE Fail(Breaker, now)
             a == Finally([Managers EXCEPT
                             !.failures = b.failures,
                             !.state = b.state,
                             !.nextAttempt = b.nextAttempt,
                             !.settled = @ \cup {Settlement(fr, ok)}], fr)
         IN /\ SetManagers(a)
            /\ UpdateMetrics(ok)
            /\ calls' = Started(Metered(calls, fr.fn, ok), a.started)
    /\ UNCHANGED <<options, pendingTasks, disk, startTime, thrown, ctor,
                   nCalls, ioFaults, listeners, payloads, repeats, loaded,
                   replayed, restarts, now>>
    /\ SysFrame

\* executeTask() resumes with the "Circuit breaker is OPEN" error
\* (app.js 181-184), then _run()   (app.js 32-38)
RejectedResumes ==
    /\ ctor = 0
    /\ \E fr \in inFlight :
         /\ fr.fn \in cbRejected
         /\ LET a == Finally([Managers EXCEPT
                                !.cbRejected = @ \ {fr.fn},
                                !.settled = @ \cup
                                   {[chan |-> fr.reject,
                                     outcome |-> CircuitOpenError]}], fr)
            IN /\ SetManagers(a)
               /\ UpdateMetrics(FALSE)
               /\ calls' = Started(Metered(calls, fr.fn, FALSE), a.started)
    /\ UNCHANGED <<options, pendingTasks, disk, startTime, thrown, ctor,
                   nCalls, ioFaults, listeners, payloads, repeats, loaded,
                   replayed, restarts, now>>
    /\ SysFrame

\* Mutant of WithoutTask: nothing is removed.
WithoutTaskNothing(tasks, taskId) == tasks

\* this.pendingTasks.filter((t) => t.taskId !== taskId)   (app.js 132)
WithoutTask(tasks, taskId) ==
    SelectSeq(tasks, LAMBDA t : t.taskId # taskId)

\* Mutant of ContinueWith: the catch block removes the record too.
ContinueRemovesOnFailure(s, wok) ==
    LET n == s.chan[2]
        taskId == calls[n].taskId
        tasks == WithoutTask(pendingTasks, taskId)
    IN
    /\ settled' = settled \ {s}
    /\ pendingTasks' = tasks
    /\ disk' = SaveTasks(disk, tasks, wok)
    /\ IF s.chan[1] = "fulfilled"
       THEN calls' = [Forget(calls) EXCEPT
                  ![n].events = Append(@, <<"taskCompleted", taskId,
                                           s.outcome>>),
                  ![n].outcome = <<"fulfilled", s.outcome>>]
       ELSE calls' = [Forget(calls) EXCEPT
                  ![n].events = Append(@, <<"taskFailed", taskId,
                                           ErrorMessage(s.outcome)>>),
                  ![n].outcome = <<"rejected", s.outcome>>]

\* processTask() resumes after its await with the outcome s
\* (app.js 131-140).  emit("taskCompleted") is inside the try block: the
\* exception of a listener goes to the catch block, which emits taskFailed
\* and throws it.  The exception of a taskFailed listener leaves the catch
\* block in the place of the error it was handling.
ContinueWith(s, wok) ==
    LET n == s.chan[2]
        taskId == calls[n].taskId
        tasks == WithoutTask(pendingTasks, taskId)
    IN
    /\ settled' = settled \ {s}
    /\ IF s.chan[1] = "fulfilled"
       THEN /\ pendingTasks' = tasks
            /\ disk' = SaveTasks(disk, tasks, wok)
            /\ IF "taskCompleted" \in listeners
               THEN calls' = [Forget(calls) EXCEPT
                      ![n].events = @ \o
                         << <<"taskCompleted", taskId, s.outcome>>,
                            <<"taskFailed", taskId,
                              ErrorMessage(ListenerError)>> >>,
                      ![n].outcome = <<"rejected", ListenerError>>]
               ELSE calls' = [Forget(calls) EXCEPT
                      ![n].events = Append(@, <<"taskCompleted", taskId,
                                               s.outcome>>),
                      ![n].outcome = <<"fulfilled", s.outcome>>]
       ELSE /\ calls' = [Forget(calls) EXCEPT
                  ![n].events = Append(@, <<"taskFailed", taskId,
                                           ErrorMessage(s.outcome)>>),
                  ![n].outcome = <<"rejected",
                                   IF "taskFailed" \in listeners
                                   THEN ListenerError ELSE s.outcome>>]
            /\ UNCHANGED <<pendingTasks, disk>>

Continue ==
    /\ ctor = 0
    /\ \E s \in settled, wok \in WriteOutcomes : ContinueWith(s, wok)
    /\ UNCHANGED <<maxConcurrent, queueLimit, activeCount, queue, inFlight,
                   failureThreshold, recoveryTime, failures, state,
                   nextAttempt, now>>
    /\ UNCHANGED <<options, totalProcessed, totalErrors, startTime, thrown,
                   ctor, cbRejected, nCalls, ioFaults, listeners, payloads,
                   repeats, loaded, replayed, restarts>>
    /\ SysFrame

\* Date.now() advances past the recovery time of the open breaker.
RecoveryElapses ==
    /\ state = "OPEN"
    /\ now <= nextAttempt
    /\ now' = nextAttempt + 1
    /\ UNCHANGED <<maxConcurrent, queueLimit, activeCount, queue, inFlight,
                   settled, failureThreshold, recoveryTime, failures, state,
                   nextAttempt>>
    /\ UNCHANGED <<options, pendingTasks, disk, totalProcessed, totalErrors,
                   startTime, thrown, ctor, cbRejected, calls, nCalls,
                   ioFaults, listeners, payloads, repeats, loaded, replayed,
                   restarts>>
    /\ SysFrame

\* The process dies and the program is started again with the same options:
\* the objects in memory are lost, the store file is kept.
Restart ==
    /\ ctor = 0
    /\ restarts < MaxRestarts
    /\ nCalls + Len(LoadTasks(disk)) <= MaxTasks
    /\ restarts' = restarts + 1
    /\ LET s == NewSystem(options, disk, now) IN
         /\ maxConcurrent' = s.maxConcurrent
         /\ queueLimit' = s.queueLimit
         /\ failureThreshold' = s.failureThreshold
         /\ recoveryTime' = s.recoveryTime
         /\ nextAttempt' = s.nextAttempt
         /\ startTime' = s.startTime
         /\ pendingTasks' = s.pendingTasks
         /\ thrown' = s.thrown
         /\ ctor' = s.ctor
         /\ loaded' = Len(s.pendingTasks)
    /\ activeCount' = 0
    /\ queue' = <<>>
    /\ inFlight' = {}
    /\ settled' = {}
    /\ failures' = 0
    /\ state' = "CLOSED"
    /\ totalProcessed' = 0
    /\ totalErrors' = 0
    /\ cbRejected' = {}
    /\ replayed' = 0
    /\ calls' = [n \in TaskNums |-> NoCall]
    /\ UNCHANGED <<options, disk, nCalls, ioFaults, listeners, payloads,
                   repeats, now>>
    /\ SysFrame

\* Mutant of CMMetrics: the queue limit is given as the queue length.
CMMetricsLimitAsLength ==
    [activeCount |-> activeCount, queueLength |-> queueLimit,
     maxConcurrent |-> maxConcurrent, queueLimit |-> queueLimit]

\* the value of concurrencyManager.getMetrics()   (app.js 41-48)
CMMetrics ==
    [activeCount |-> activeCount, queueLength |-> Len(queue),
     maxConcurrent |-> maxConcurrent, queueLimit |-> queueLimit]

\* the value of getSystemMetrics()   (app.js 201-215), but for avgLatency
SystemMetrics ==
    [kind |-> "getSystemMetrics",
     uptime |-> now - startTime,
     throughput |-> Divide(totalProcessed * 1000, now - startTime),
     errorRate |-> Divide(totalErrors, totalProcessed + totalErrors),
     concurrency |-> CMMetrics,
     circuitBreakerState |-> state]

\* what a call of getMetrics() or of getSystemMetrics() leaves as it is
ReadFrame ==
    /\ UNCHANGED <<cmVars, cbVars>>
    /\ UNCHANGED <<options, pendingTasks, disk, totalProcessed, totalErrors,
                   startTime, thrown, ctor, cbRejected, calls, nCalls,
                   ioFaults, listeners, payloads, repeats, loaded, replayed,
                   restarts>>

\* A caller calls concurrencyManager.getMetrics()   (app.js 41-48)
GetMetrics ==
    /\ ctor = 0
    /\ ~thrown
    /\ report' = [NoReport EXCEPT !.kind = "getMetrics",
                                  !.concurrency = CMMetrics]
    /\ ReadFrame

\* A caller, or the timer of startMetricsReporting(), calls
\* getSystemMetrics()   (app.js 201-215, 218-219)
GetSystemMetrics ==
    /\ ctor = 0
    /\ ~thrown
    /\ report' = SystemMetrics
    /\ ReadFrame

NextSys ==
    \/ Submit
    \/ RecoverNext
    \/ BodySettles
    \/ RejectedResumes
    \/ Continue
    \/ RecoveryElapses
    \/ Restart

SpecSys == InitSys /\ [][NextSys]_vars

\* The system with one slot and one waiting place, whose metrics are read.
InitSysRead == InitSys /\ options.maxConcurrent = {1}

NextSysRead ==
    \/ Submit
    \/ RecoverNext
    \/ BodySettles
    \/ RejectedResumes
    \/ Continue
    \/ RecoveryElapses
    \/ Restart
    \/ GetMetrics
    \/ GetSystemMetrics

SpecSysRead == InitSysRead /\ [][NextSysRead]_vars

\* The system with one slot and one waiting place, started with a store file
\* of any content and with writes of the store file that may fail.
InitSysIO ==
    SysStart(AnyFiles, TRUE, {{}}, {"new"}) /\ options.maxConcurrent = {1}

SpecSysIO == InitSysIO /\ [][NextSys]_vars

\* the sets of listeners that throw a caller may register
ListenerChoices == SUBSET EventNames

\* The system with one slot and one waiting place, with listeners that may
\* throw.
InitSysEv ==
    /\ SysStart(StoredFiles, FALSE, ListenerChoices, {"new"})
    /\ options.maxConcurrent = {1}

SpecSysEv == InitSysEv /\ [][NextSys]_vars

\* The system with one slot and one waiting place, with callers whose
\* taskData may hold a Date.
InitSysData ==
    /\ SysStart(StoredFiles, FALSE, {{}}, PayloadKinds)
    /\ options.maxConcurrent = {1}

SpecSysData == InitSysData /\ [][NextSys]_vars

(***************************************************************************)
(* Claims about the ConcurrencyManager                                     *)
(***************************************************************************)
\* operations started and not yet finished
RunningFns == {fr.fn : fr \in inFlight}

\* position of request f in queue q (0 when absent)
Pos(q, f) == IF \E i \in 1..Len(q) : q[i].fn = f
             THEN CHOOSE i \in 1..Len(q) : q[i].fn = f
             ELSE 0

WaitingIn(q) == {q[i].fn : i \in 1..Len(q)}

\* C1: in every reachable state the number of operations started and not yet
\* finished equals activeCount, and 0 <= activeCount <= maxConcurrent.
C1_ActiveCountBounded ==
    /\ Cardinality(inFlight) = activeCount
    /\ Cardinality(RunningFns) = activeCount
    /\ 0 <= activeCount
    /\ activeCount <= maxConcurrent

\* C1 witness: all slots are taken, a request waits, and an operation has
\* already completed with a failure.
C1_Witness ==
    /\ maxConcurrent = 2
    /\ activeCount = maxConcurrent
    /\ Len(queue) > 0
    /\ \E r \in ReqIds : result[r] = <<<<"rejected", <<"error", r>>>>>>

\* C2: of two requests waiting at the same time, the one with the lower
\* priority never leaves the queue while the one with the higher priority is
\* still waiting, whichever was submitted first; a request that leaves the
\* queue is started in that step.
C2_HigherPriorityFirst ==
    [][\A i, j \in 1..Len(queue) :
          /\ (queue[i].priority > queue[j].priority
                /\ queue[j].fn \notin WaitingIn(queue'))
             => queue[i].fn \notin WaitingIn(queue')
          /\ queue[i].fn \notin WaitingIn(queue')
             => /\ queue[i].fn \in {fr.fn : fr \in inFlight'}
                /\ invoked'[queue[i].fn] = invoked[queue[i].fn] + 1]_vars

\* C2 witness: a request submitted later has been started from the queue
\* while a request submitted before it, of the lowest priority, still waits.
C2_Witness ==
    \E i \in 1..Len(queue), k \in ReqIds :
        /\ queue[i].priority = 0
        /\ k > queue[i].fn
        /\ path[k] = "queued"
        /\ invoked[k] = 1

\* Requests of equal priority stand in the queue in the order of submission.
QueueFifoWithinPriority ==
    \A i, j \in 1..Len(queue) :
        (i < j /\ queue[i].priority = queue[j].priority)
            => queue[i].fn < queue[j].fn

\* C3: of two requests of equal priority waiting at the same time, the one
\* submitted earlier leaves the queue first, and no step (in particular no
\* insertion of a further request) changes their relative order in the queue.
C3_FifoWithinPriority ==
    /\ []QueueFifoWithinPriority
    /\ [][\A i, j \in 1..Len(queue) :
            (queue[i].priority = queue[j].priority
               /\ queue[i].fn < queue[j].fn)
            => /\ queue[j].fn \notin WaitingIn(queue')
                    => queue[i].fn \notin WaitingIn(queue')
               /\ (queue[i].fn \in WaitingIn(queue')
                     /\ queue[j].fn \in WaitingIn(queue'))
                    => Pos(queue', queue[i].fn) < Pos(queue', queue[j].fn)]_vars

\* C3 witness: two requests of equal priority wait in the order of their
\* submission after a third request, submitted after both, was inserted into
\* the queue and started from it.
C3_Witness ==
    \E i, j \in 1..Len(queue), c \in ReqIds :
        /\ i < j
        /\ queue[i].priority = queue[j].priority
        /\ queue[i].fn < queue[j].fn
        /\ c > queue[j].fn
        /\ path[c] = "queued"
        /\ invoked[c] = 1

\* C4: a call of execute() made with all slots taken and queueLimit requests
\* waiting fails at once with the queue-full error, invokes no operation and
\* leaves activeCount and the queue unchanged.
C4_QueueFullRejects ==
    [][(submitted' = submitted + 1
          /\ activeCount >= maxConcurrent
          /\ Len(queue) >= queueLimit)
       => /\ result'[submitted'] = <<<<"rejected", QueueFullError>>>>
          /\ invoked' = invoked
          /\ activeCount' = activeCount
          /\ queue' = queue
          /\ inFlight' = inFlight
          /\ settled' = settled]_vars

\* C4 witness: with maxConcurrent = C and queueLimit = Q >= 1, C operations
\* run, Q requests wait and call number C + Q + 1 has been rejected.
C4_Witness ==
    /\ queueLimit >= 1
    /\ activeCount = maxConcurrent
    /\ Len(queue) = queueLimit
    /\ submitted = maxConcurrent + queueLimit + 1
    /\ result[submitted] = <<<<"rejected", QueueFullError>>>>
    /\ invoked[submitted] = 0

\* C5: the waiting queue never holds more than queueLimit requests.
C5_QueueBounded == Len(queue) <= queueLimit

\* C5 witness: the queue is at its limit after a request was rejected and
\* another one was admitted into the place a completion freed.
C5_Witness ==
    /\ queueLimit >= 1
    /\ Len(queue) = queueLimit
    /\ \E r, q \in ReqIds :
         /\ r < q
         /\ path[r] = "rejected"
         /\ q \in WaitingIn(queue)

\* The outcomes a caller may receive from its own operation
OwnOutcomes(r) == {<<"fulfilled", <<"value", r>>>>, <<"rejected", <<"error", r>>>>}

\* No caller receives two outcomes or the outcome of another request.
OnlyOwnOutcome ==
    \A r \in ReqIds :
        /\ Len(result[r]) <= 1
        /\ Len(result[r]) = 1
             => \/ result[r][1] \in OwnOutcomes(r)
                \/ path[r] = "rejected" /\ result[r][1] = <<"rejected", QueueFullError>>

\* A step in which a running operation finishes (its promise is settled)
\* with a request waiting removes the head of the queue and starts it.
FinishStartsHead ==
    (settled' # settled /\ Cardinality(settled') > Cardinality(settled)
       /\ Len(queue) > 0)
    => /\ queue' = Tail(queue)
       /\ Head(queue).fn \in {fr.fn : fr \in inFlight'}
       /\ invoked'[Head(queue).fn] = invoked[Head(queue).fn] + 1

\* Every caller whose request was put in the queue has received the outcome
\* of its own operation.
QueuedCallersServed ==
    \A r \in ReqIds :
        path[r] = "queued"
            => (Len(result[r]) = 1 /\ result[r][1] \in OwnOutcomes(r))

\* C6: when a running operation finishes with a request waiting, the head of
\* the queue is removed and started, and every caller suspended on a queued
\* request eventually receives the outcome of its own operation, once.
\* (An outcome received is never taken back and finitely many calls are
\* made, so "each queued caller is eventually served" is "eventually all
\* queued callers are served, from then on".)
C6_QueuedCallerGetsOwnOutcome ==
    /\ []OnlyOwnOutcome
    /\ [][FinishStartsHead]_vars
    /\ <>[]QueuedCallersServed

\* C6 witness: one queued caller has received the value of its operation and
\* another queued caller the error of its own.
C6_Witness ==
    \E a, b \in ReqIds :
        /\ path[a] = "queued" /\ path[b] = "queued"
        /\ result[a] = <<<<"fulfilled", <<"value", a>>>>>>
        /\ result[b] = <<<<"rejected", <<"error", b>>>>>>

(***************************************************************************)
(* Claims about the CircuitBreaker                                         *)
(***************************************************************************)
\* calls whose wrapped operation is in flight
CBRunning == {c \in CallIds : cbPc[c] = "running"}

\* C7: counting the failed operations since the start or the last success,
\* the failure that makes the count failureThreshold leaves the state OPEN
\* with nextAttempt = the time of that failure + recoveryTime, and a failure
\* that leaves the count below failureThreshold leaves the state CLOSED.
C7_OpensAtThreshold ==
    [][streak' = streak + 1
        => /\ streak' < failureThreshold => state' = "CLOSED"
           /\ streak' = failureThreshold
                => /\ state' = "OPEN"
                   /\ nextAttempt' = now + recoveryTime
                   /\ nextAttempt' = lastFailTime' + recoveryTime]_vars

\* C7 witness: failureThreshold = 2, the second failure in a row happened at
\* a time later than 0 and the breaker is OPEN until that time + recoveryTime.
C7_Witness ==
    /\ failureThreshold = 2
    /\ streak = 2
    /\ state = "OPEN"
    /\ lastFailTime >= 1
    /\ nextAttempt = lastFailTime + recoveryTime
    /\ Cardinality({c \in CallIds : cbOut[c] = "error"}) = 2

\* C8: a call of execute() made while OPEN with now <= nextAttempt fails with
\* the circuit-open error, calls no wrapped operation and leaves state,
\* failures and nextAttempt unchanged.
C8_OpenRejects ==
    [][(cbCalled' = cbCalled + 1 /\ state = "OPEN" /\ now <= nextAttempt)
        => /\ cbOut'[cbCalled'] = "CircuitOpen"
           /\ cbPc'[cbCalled'] = "done"
           /\ opCalls' = opCalls
           /\ state' = state
           /\ failures' = failures
           /\ nextAttempt' = nextAttempt
           /\ streak' = streak]_vars

\* C8 witness: the last call was rejected at the very time nextAttempt, its
\* operation was not called and the breaker is still OPEN.
C8_Witness ==
    /\ cbCalled >= 1
    /\ cbOut[cbCalled] = "CircuitOpen"
    /\ opCalls[cbCalled] = 0
    /\ state = "OPEN"
    /\ now = nextAttempt
    /\ failures >= failureThreshold

\* C9: only the call that made the OPEN -> HALF_OPEN transition has its
\* operation called in HALF_OPEN, so at most one operation called in
\* HALF_OPEN is in flight.
C9_SingleProbe ==
    /\ \A c \in CallIds : (enteredIn[c] = "HALF_OPEN" /\ ~probe[c])
                             => opCalls[c] = 0
    /\ Cardinality({c \in CBRunning : enteredIn[c] = "HALF_OPEN"}) <= 1

\* C10: a call made while OPEN with now > nextAttempt makes the state
\* HALF_OPEN and calls its operation; when that operation succeeds the state
\* becomes CLOSED with failures = 0, when it fails the state becomes OPEN
\* with nextAttempt = the time of the failure + recoveryTime.
C10_ProbeDecides ==
    [][/\ (cbCalled' = cbCalled + 1 /\ state = "OPEN" /\ now > nextAttempt)
          => /\ state' = "HALF_OPEN"
             /\ opCalls'[cbCalled'] = 1
             /\ cbPc'[cbCalled'] = "running"
       /\ \A c \in CallIds :
            (probe[c] /\ cbPc[c] = "running" /\ cbPc'[c] = "done")
            => IF cbOut'[c] = "value"
               THEN state' = "CLOSED" /\ failures' = 0
               ELSE state' = "OPEN" /\ nextAttempt' = now + recoveryTime]_vars

\* C11: a call whose operation succeeds leaves failures = 0 and the state
\* CLOSED, and the first failure after a success (or after the start) opens
\* the breaker only when failureThreshold = 1.
C11_SuccessResets ==
    [][/\ (\E c \in CallIds : cbPc[c] = "running" /\ cbOut'[c] = "value")
          => (failures' = 0 /\ state' = "CLOSED")
       /\ (streak = 0 /\ streak' = 1)
          => (state' # "CLOSED" => failureThreshold = 1)]_vars

\* C11 witness: failureThreshold = 2, a call has succeeded after the breaker
\* had counted failures, and one call has failed since: the breaker is CLOSED.
C11_Witness ==
    /\ failureThreshold = 2
    /\ streak = 1
    /\ failures = 1
    /\ state = "CLOSED"
    /\ \E c \in CallIds : cbOut[c] = "value"
    /\ Cardinality({c \in CallIds : cbOut[c] = "error"}) >= 2


(***************************************************************************)
(* Claims about the AsyncProcessingSystem                                  *)
(***************************************************************************)
\* the last record of a store
LastOf(recs) == recs[Len(recs)]

\* the step is a call of processTask() with isRecovered = false
FreshCallStep == nCalls' = nCalls + 1 /\ ~calls'[nCalls'].recovered

\* the step is a call of processTask() with isRecovered = true
ReplayStep == nCalls' = nCalls + 1 /\ calls'[nCalls'].recovered

\* C12: a call of processTask() with isRecovered = false has put its record
\* {taskId, taskData, priority} at the end of pendingTasks and in the store
\* file when concurrencyManager.execute() is called, so before its body can
\* start.
C12_PersistedBeforeAdmission ==
    [][FreshCallStep =>
         LET c == calls'[nCalls'] IN
           /\ c.stored
           /\ c.runs <= 1
           /\ LastOf(pendingTasks').taskId = c.taskId
           /\ LastOf(pendingTasks').taskData = <<"new", nCalls'>>
           /\ LastOf(pendingTasks').priority \in SubmitPriorities
           /\ LastOf(LoadTasks(disk')) = LastOf(pendingTasks')]_vars

C12_Witness ==
    \E n \in Unfinished :
       /\ ~calls[n].recovered
       /\ calls[n].stored
       /\ calls[n].runs = 1
       /\ HasRecord(LoadTasks(disk), calls[n].taskId)
       /\ \E m \in Unfinished :
            /\ ~calls[m].recovered
            /\ calls[m].stored
            /\ calls[m].runs = 0
            /\ \E i \in DOMAIN queue : queue[i].fn = m

\* the step is the continuation of call n of processTask()
Finishes(n, how) ==
    /\ calls[n].outcome[1] = "none"
    /\ calls'[n].outcome[1] = how

\* C13: when a call of processTask() completes successfully, fresh or
\* replayed, the record of its task is in neither pendingTasks nor the store
\* file when taskCompleted is emitted.
C13_CompletedRecordRemoved ==
    [][\A n \in TaskNums :
         Finishes(n, "fulfilled") =>
            /\ LastOf(calls'[n].events)[1] = "taskCompleted"
            /\ ~HasRecord(pendingTasks', calls[n].record)
            /\ ~HasRecord(LoadTasks(disk'), calls[n].record)]_vars

\* C14: at a crash, every task submitted with isRecovered = false whose
\* success is not recorded has its record in the store file, and the next
\* start loads it for recoverTasks().
C14_UnfinishedSurvivesCrash ==
    [][restarts' = restarts + 1 =>
         \A n \in 1..nCalls :
            (~calls[n].recovered /\ calls[n].outcome[1] \in {"none", "rejected"})
            => /\ HasRecord(LoadTasks(disk), calls[n].taskId)
               /\ HasRecord(pendingTasks', calls[n].taskId)
               /\ ctor' > 0]_vars

\* C15: when a call of processTask() ends with a failure, the step leaves
\* pendingTasks and the store file as they were, emits taskFailed with the
\* message of the error and rejects the call with that same error.
C15_FailureKeepsRecord ==
    [][restarts' = restarts =>
         \A s \in settled \ settled' :
            s.outcome[1] # "value" =>
               LET n == s.chan[2] IN
                 /\ pendingTasks' = pendingTasks
                 /\ disk' = disk
                 /\ LastOf(calls'[n].events) =
                      <<"taskFailed", calls[n].taskId, ErrorMessage(s.outcome)>>
                 /\ calls'[n].outcome = <<"rejected", s.outcome>>]_vars

C15_Witness ==
    \E n \in 1..nCalls :
       /\ ~calls[n].recovered
       /\ calls[n].outcome = <<"rejected", CircuitOpenError>>
       /\ calls[n].runs = 0
       /\ LastOf(calls[n].events) =
            <<"taskFailed", calls[n].taskId, "Circuit breaker is OPEN">>
       /\ HasRecord(pendingTasks, calls[n].taskId)
       /\ HasRecord(LoadTasks(disk), calls[n].taskId)
       /\ totalErrors > DefaultFailureThreshold

\* C16: a task that execute() rejects with "Task queue limit reached" has no
\* record in the store file.
C16_QueueFullNotPersisted ==
    \A n \in 1..nCalls :
       (/\ ~calls[n].recovered
        /\ \/ calls[n].outcome = <<"rejected", QueueFullError>>
           \/ [chan |-> RejectOf(n), outcome |-> QueueFullError] \in settled)
       => ~HasRecord(LoadTasks(disk), calls[n].taskId)

\* C17: a start that loads N records makes exactly N calls of
\* processTask(..., true), one per record in the order of the store, none of
\* which changes pendingTasks or the store file; a replay that is rejected,
\* with "Task queue limit reached" too, is followed by the replay of the next
\* record, and the constructor returns.
C17_RecoveryReplaysAll ==
    /\ [](IF ctor = 0 THEN replayed = loaded
           ELSE /\ replayed = ctor - 1
                /\ ctor <= loaded
                /\ loaded = Len(pendingTasks)
                /\ nCalls < MaxTasks)
    /\ [][ReplayStep =>
            /\ ctor > 0
            /\ calls'[nCalls'].record = pendingTasks[ctor].taskId
            /\ pendingTasks' = pendingTasks
            /\ disk' = disk
            /\ replayed' = replayed + 1
            /\ ctor' = IF ctor < loaded THEN ctor + 1 ELSE 0]_vars

C17_Witness ==
    /\ ctor = 0
    /\ restarts = 0
    /\ loaded = replayed
    /\ loaded > maxConcurrent + queueLimit
    /\ Len(pendingTasks) = loaded
    /\ calls[nCalls].recovered
    /\ \E s \in settled :
         /\ s.outcome = QueueFullError
         /\ calls[s.chan[2]].recovered
         /\ s.chan[2] < nCalls

\* C18: no two records of pendingTasks have the same taskId, and no two
\* unfinished calls of processTask() have the same taskId.
C18_TaskIdsDistinct ==
    /\ \A i, j \in DOMAIN pendingTasks :
          pendingTasks[i].taskId = pendingTasks[j].taskId => i = j
    /\ \A n, m \in Unfinished :
          calls[n].taskId = calls[m].taskId => n = m

\* C19: the breaker of the system has the failureThreshold and the
\* recoveryTime given in the options, and 5 and 5000 when they are absent.
C19_BreakerUsesOptions ==
    /\ IF options.failureThreshold = {}
       THEN failureThreshold = DefaultFailureThreshold
       ELSE failureThreshold \in options.failureThreshold
    /\ IF options.recoveryTime = {}
       THEN recoveryTime = DefaultRecoveryTime
       ELSE recoveryTime \in options.recoveryTime

\* C20: the ConcurrencyManager of the system has the maxConcurrent and the
\* queueLimit given in the options, queueLimit = 0 included, and 10 and 1000
\* when they are absent; with queueLimit = 0 no request waits.
C20_LimitsUseOptions ==
    /\ IF options.maxConcurrent = {}
       THEN maxConcurrent = DefaultMaxConcurrent
       ELSE maxConcurrent \in options.maxConcurrent
    /\ IF options.queueLimit = {}
       THEN queueLimit = DefaultQueueLimit
       ELSE queueLimit \in options.queueLimit
    /\ options.queueLimit = {0} => queue = <<>>

(***************************************************************************)
(* Further claims about the ConcurrencyManager and the CircuitBreaker      *)
(***************************************************************************)
\* C25: a call of execute() made while activeCount < maxConcurrent takes a
\* slot and invokes its operation in the step of the call, and the queue is
\* left as it was.
C25_FreeSlotStartsAtOnce ==
    [][(submitted' = submitted + 1 /\ activeCount < maxConcurrent) =>
         LET id == submitted' IN
           /\ activeCount' = activeCount + 1
           /\ invoked'[id] = 1
           /\ Frame(id, id) \in inFlight'
           /\ queue' = queue
           /\ path'[id] = "direct"]_vars

C25_Witness ==
    /\ activeCount = 2
    /\ \E id \in ReqIds :
         /\ id > 1
         /\ path[id] = "direct"
         /\ invoked[id] = 1
         /\ Frame(id, id) \in inFlight

\* C26: the breaker leaves OPEN only by a call of execute() made after
\* nextAttempt, which makes it HALF_OPEN, and nextAttempt does not change
\* while the breaker is OPEN.
C26_OpenLeftOnlyByProbe ==
    [][state = "OPEN" =>
         /\ (state' # "OPEN") =>
               (/\ state' = "HALF_OPEN"
                /\ now > nextAttempt
                /\ cbCalled' = cbCalled + 1)
         /\ nextAttempt' = nextAttempt]_vars

\* C29: when a request waits every slot is taken; a call of execute() whose
\* operation starts at once finds the queue empty; and when an operation ends
\* with a request waiting, the head of the queue starts in that step and the
\* number of taken slots stays as it was.
C29_WorkConserving ==
    /\ [](Len(queue) > 0 => activeCount = maxConcurrent)
    /\ [][/\ (submitted' = submitted + 1 /\ invoked'[submitted'] = 1)
               => queue = <<>>
          /\ (activeCount' < activeCount \/ Len(queue') < Len(queue))
               => IF Len(queue) > 0
                  THEN /\ queue' = Tail(queue)
                       /\ activeCount' = activeCount
                       /\ invoked'[Head(queue).fn] =
                            invoked[Head(queue).fn] + 1
                       /\ Head(queue).fn \in {fr.fn : fr \in inFlight'}
                  ELSE activeCount' = activeCount - 1]_vars

C29_Witness ==
    /\ Len(queue) > 0
    /\ activeCount = maxConcurrent
    /\ maxConcurrent = 2
    /\ \E r \in ReqIds :
         /\ path[r] = "queued"
         /\ invoked[r] = 1
         /\ r \in RunningFns

\* C30: the state is CLOSED exactly when failures < failureThreshold.
C30_ClosedIffBelowThreshold ==
    (state = "CLOSED") <=> (failures < failureThreshold)

C30_Witness ==
    /\ state = "HALF_OPEN"
    /\ failures > failureThreshold
    /\ Cardinality(CBRunning) >= 2

(***************************************************************************)
(* Further claims about the AsyncProcessingSystem                          *)
(***************************************************************************)
\* C22: when a call of processTask() ends, updateMetrics() has been called
\* exactly once for its task, with success = true when the call is fulfilled
\* and with success = false when it is rejected; and a call of
\* updateMetrics() adds one to exactly one of the two counters.
C22_MeteredOncePerCall ==
    [][/\ \A n \in TaskNums :
            /\ Finishes(n, "fulfilled") => calls[n].metered = <<TRUE>>
            /\ Finishes(n, "rejected") => calls[n].metered = <<FALSE>>
       /\ \A n \in TaskNums :
            (restarts' = restarts
               /\ Len(calls'[n].metered) > Len(calls[n].metered))
            => totalProcessed' + totalErrors'
                  = totalProcessed + totalErrors + 1]_vars

\* C27: the body of a task starts at most once per call of processTask(),
\* and not at all when the call is rejected with "Task queue limit reached"
\* or "Circuit breaker is OPEN".
C27_BodyRunsAtMostOnce ==
    /\ \A n \in TaskNums :
          /\ calls[n].runs <= 1
          /\ calls[n].outcome[1] = "fulfilled" => calls[n].runs = 1
          /\ calls[n].outcome[2] \in {QueueFullError, CircuitOpenError}
               => calls[n].runs = 0
    /\ \A n \in cbRejected : calls[n].runs = 0
    /\ \A s \in settled :
          calls[s.chan[2]].runs =
             IF s.outcome \in {QueueFullError, CircuitOpenError} THEN 0 ELSE 1

C27_Witness ==
    /\ \E n \in 1..nCalls :
         /\ calls[n].outcome = <<"rejected", QueueFullError>>
         /\ calls[n].runs = 0
    /\ \E m \in Unfinished : calls[m].runs = 1
    /\ \E s \in settled : s.outcome[1] = "error"
    /\ totalProcessed >= 1

\* C21: the error rate getSystemMetrics() gives is totalErrors /
\* (totalProcessed + totalErrors), and 0 when no task has been counted.
C21_ErrorRateZeroWhenIdle ==
    report.kind = "getSystemMetrics" =>
       IF totalProcessed + totalErrors = 0
       THEN report.errorRate[1] = "ratio" /\ report.errorRate[2] = 0
       ELSE report.errorRate =
               <<"ratio", totalErrors, totalProcessed + totalErrors>>

\* C24: a call of getMetrics() or of getSystemMetrics() changes nothing but
\* the value it returns, and getMetrics() returns activeCount, the length of
\* the queue, maxConcurrent and queueLimit as they are.
C24_ReadsChangeNothing ==
    [][report' # NoReport =>
         /\ UNCHANGED <<cmVars, cbVars>>
         /\ UNCHANGED <<pendingTasks, disk, totalProcessed, totalErrors,
                        startTime, cbRejected, calls, nCalls>>
         /\ report'.concurrency.activeCount = activeCount
         /\ report'.concurrency.queueLength = Len(queue)
         /\ report'.concurrency.maxConcurrent = maxConcurrent
         /\ report'.concurrency.queueLimit = queueLimit
         /\ report'.kind = "getSystemMetrics"
              => report'.circuitBreakerState = state]_vars

C24_Witness ==
    /\ report.kind = "getMetrics"
    /\ report.concurrency.activeCount = 1
    /\ report.concurrency.queueLength = 1
    /\ report.concurrency.queueLimit = 1
    /\ settled # {}
    /\ totalErrors >= 1
    /\ Len(pendingTasks) >= 2

\* C23: no start throws, and a start that finds no store file, or a file
\* whose content is not a serialized array of task records, has an empty
\* pendingTasks.
C23_LoadNeverStopsStart ==
    /\ ~thrown
    /\ (restarts = 0 /\ nCalls = 0 /\ disk.kind # "array")
         => (pendingTasks = <<>> /\ loaded = 0 /\ ctor = 0)

\* the call n of processTask() has been handed to the ConcurrencyManager:
\* it waits, or runs, or is rejected with "Task queue limit reached"
Admitted(n) ==
    \/ \E i \in DOMAIN queue' : queue'[i].fn = n
    \/ Frame(n, n) \in inFlight'
    \/ [chan |-> RejectOf(n), outcome |-> QueueFullError] \in settled'

\* C28: whether the write of the store file succeeds or not, a call of
\* processTask() with isRecovered = false puts its record in pendingTasks and
\* goes on to concurrencyManager.execute(), a call that is fulfilled has no
\* record with its taskId in pendingTasks and gives the value of its own
\* body, and a call that is rejected gives the error of its own body or of
\* its own rejection.
C28_WriteFailureHarmless ==
    [][/\ FreshCallStep =>
            /\ LastOf(pendingTasks').taskId = calls'[nCalls'].taskId
            /\ Len(pendingTasks') = Len(pendingTasks) + 1
            /\ Admitted(nCalls')
       /\ \A n \in TaskNums :
            /\ Finishes(n, "fulfilled") =>
                  /\ ~HasRecord(pendingTasks', calls[n].taskId)
                  /\ calls'[n].outcome = <<"fulfilled", <<"value", n>>>>
            /\ Finishes(n, "rejected") =>
                  calls'[n].outcome[2] \in
                     {<<"error", n>>, QueueFullError, CircuitOpenError}]_vars

C28_Witness ==
    \E n \in 1..nCalls :
       /\ ~calls[n].recovered
       /\ ~calls[n].stored
       /\ calls[n].runs = 1
       /\ calls[n].outcome = <<"fulfilled", <<"value", n>>>>
       /\ ~HasRecord(pendingTasks, calls[n].taskId)
       /\ LoadTasks(disk) # pendingTasks
(***************************************************************************)
(* Termination of the ConcurrencyManager                                   *)
(***************************************************************************)
\* Nothing is running, nothing waits and no reaction is pending.
Drained == activeCount = 0 /\ queue = <<>> /\ inFlight = {} /\ settled = {}

\* C31: finitely many calls of execute() are made and every started
\* operation finishes (FairSpecCM).  Then every request put in the queue is
\* eventually started, its caller eventually receives an outcome, and the
\* manager comes to rest with activeCount = 0 and an empty queue.
C31_QueueDrains ==
    /\ \A r \in ReqIds :
         /\ (r \in WaitingIn(queue)) ~> (invoked[r] >= 1)
         /\ (path[r] = "queued") ~> (Len(result[r]) >= 1)
    /\ <>[]Drained

\* C31 witness: every call has been made, two of them waited in the queue,
\* both were started and answered, and the manager is at rest.
C31_Witness ==
    /\ submitted = MaxReq
    /\ Drained
    /\ \E a, b \in ReqIds :
         /\ a # b
         /\ path[a] = "queued" /\ path[b] = "queued"
         /\ invoked[a] = 1 /\ invoked[b] = 1
         /\ Len(result[a]) = 1 /\ Len(result[b]) = 1

(***************************************************************************)
(* Lifecycle events of processTask()                                       *)
(***************************************************************************)
\* the events of call c are those of a call that has not ended: taskQueued
\* with its task id and nothing else
QueuedOnly(c) == c.events = << <<"taskQueued", c.taskId>> >>

\* the events of call c are those of a call that has ended: taskQueued, then
\* one of taskCompleted and taskFailed, each with its task id
QueuedThenOneEnd(c) ==
    /\ Len(c.events) = 2
    /\ c.events[1] = <<"taskQueued", c.taskId>>
    /\ c.events[2][1] \in {"taskCompleted", "taskFailed"}
    /\ c.events[2][2] = c.taskId

\* C32: every call of processTask() emits taskQueued once and first, the
\* calls that start at once and those rejected with "Task queue limit
\* reached" included, and a call that has ended has emitted after it
\* exactly one of taskCompleted and taskFailed, with the same task id.
C32_EventsOfACall ==
    \A n \in 1..nCalls :
        LET c == calls[n] IN
          /\ c.outcome[1] = "none" => QueuedOnly(c)
          /\ c.outcome[1] \in {"fulfilled", "rejected"} => QueuedThenOneEnd(c)

(***************************************************************************)
(* The store file and this.pendingTasks                                    *)
(***************************************************************************)
\* C33: with writes of the store file that succeed, the file holds the
\* records of this.pendingTasks after every step of processTask() (the
\* append of a submission and the removal of a success included), so that
\* a start after a crash at any point loads the list as it was in memory.
C33_StoreEqualsPending == LoadTasks(disk) = pendingTasks

====
